---- MODULE Spec2Model ----
(***************************************************************************)
(* Dependency graph of the file-backed issue tracker.                      *)
(*                                                                         *)
(* Every issue is one record (a file) holding two lists, depends_on and   *)
(* blocks.  The records are changed by the CLI command `depend`           *)
(* (Commands::depend) and by the MCP tool `issues_depend`; issues come     *)
(* into being through `create`.  Each handler is one atomic action: the   *)
(* tracker is synchronous and one invocation runs to completion before     *)
(* the next one is accepted.                                               *)
(***************************************************************************)
EXTENDS Naturals, Integers, Sequences, FiniteSets, TLC

\* ------------------------------------------------------------------ bounds
NumIds == 3
MaxAdd == 2
MaxRemove == 2
MaxRequest == 3

Ids == 1..NumIds

\* ------------------------------------------------------------------ state
VARIABLES
  issues,      \* ids that have a record in issues/open or issues/closed
  depends_on,  \* depends_on[n]: the depends_on list of record n
  blocks,      \* blocks[n]: the blocks list of record n
  pc,          \* "idle": waiting for a request; "done": a handler returned
  last,        \* the request just handled, its outcome and the records before it
  closed,      \* ids whose record is in issues/closed
  calls        \* the depend calls in progress when calls run concurrently

vars == <<issues, depends_on, blocks, pc, last, closed, calls>>

\* ------------------------------------------------------- sequence helpers
Range(s) == {s[i] : i \in 1..Len(s)}

Contains(s, x) == \E i \in 1..Len(s) : s[i] = x

\* Vec::retain: keeps, in order, the elements of s that are in `keep`.
RECURSIVE Retain(_, _)
Retain(s, keep) ==
  IF s = <<>> THEN <<>>
  ELSE IF Head(s) \in keep THEN <<Head(s)>> \o Retain(Tail(s), keep)
       ELSE Retain(Tail(s), keep)

\* Inserts x into the ascending sequence s, after the elements <= x.
RECURSIVE InsertSorted(_, _)
InsertSorted(s, x) ==
  IF s = <<>> THEN <<x>>
  ELSE IF x < Head(s) THEN <<x>> \o s
       ELSE <<Head(s)>> \o InsertSorted(Tail(s), x)

\* slice::sort_unstable on u32: ascending order, duplicates kept.
RECURSIVE SortUnstable(_)
SortUnstable(s) ==
  IF s = <<>> THEN <<>>
  ELSE InsertSorted(SortUnstable(Tail(s)), Head(s))

\* `if !v.contains(x) { v.push(x) }` for every x of xs, in order.
RECURSIVE PushMissing(_, _)
PushMissing(v, xs) ==
  IF xs = <<>> THEN v
  ELSE PushMissing(IF Contains(v, Head(xs)) THEN v ELSE Append(v, Head(xs)),
                   Tail(xs))

\* All sequences over S of length at most n.
SeqsUpTo(S, n) == UNION {[1..k -> S] : k \in 0..n}

\* The requests tried: up to MaxAdd ids to add and MaxRemove ids to remove,
\* MaxRequest ids in all, repetitions allowed.
Requests ==
  {rq \in [add : SeqsUpTo(Ids, MaxAdd), remove : SeqsUpTo(Ids, MaxRemove)] :
     Len(rq.add) + Len(rq.remove) <= MaxRequest}

\* ---------------------------------------------------------------- storage
\* A repository snapshot: the records that exist and their two lists.
Repo(is, dep, blk) == [issues |-> is, depends_on |-> dep, blocks |-> blk]

Current == Repo(issues, depends_on, blocks)

\* Storage::find_issue_file / load_issue succeed exactly for existing records.
IssueExists(g, n) == n \in g.issues

\* Storage::next_bug_number: one more than the largest id on disk.
MaxOf(S) ==
  IF S = {} THEN 0 ELSE CHOOSE y \in S : \A z \in S : z <= y

next_bug_number(g) == MaxOf(g.issues) + 1

\* The forward update removing before adding.
UpdateDependsOn_remove_first(g, bug_num, add_nums, remove_nums) ==
  LET old      == g.depends_on[bug_num]
      retained == Retain(old, Range(old) \ Range(remove_nums))
  IN  [g EXCEPT !.depends_on[bug_num] = SortUnstable(PushMissing(retained, add_nums))]

\* Storage::update_issue_metadata with the closure of the forward list:
\* push the missing `add` ids, retain what is not in `remove`, sort.
UpdateDependsOn(g, bug_num, add_nums, remove_nums) ==
  LET pushed   == PushMissing(g.depends_on[bug_num], add_nums)
      retained == Retain(pushed, Range(pushed) \ Range(remove_nums))
  IN  [g EXCEPT !.depends_on[bug_num] = SortUnstable(retained)]

\* The reverse update writing the subject into both lists of the record.
AddBlocks_both_lists(g, dep_num, bug_num) ==
  [g EXCEPT !.blocks[dep_num] = SortUnstable(PushMissing(@, <<bug_num>>)),
            !.depends_on[dep_num] = SortUnstable(PushMissing(@, <<bug_num>>))]

\* The reverse update pushing without the `contains` test.
AddBlocks_always_push(g, dep_num, bug_num) ==
  [g EXCEPT !.blocks[dep_num] = SortUnstable(Append(@, bug_num))]

\* The reverse update without the final sort.
AddBlocks_unsorted(g, dep_num, bug_num) ==
  [g EXCEPT !.blocks[dep_num] = PushMissing(@, <<bug_num>>)]

\* update_issue_metadata(dep_num, ..) of the first reverse loop: push bug_num
\* unless present, then sort.
AddBlocks(g, dep_num, bug_num) ==
  [g EXCEPT !.blocks[dep_num] = SortUnstable(PushMissing(@, <<bug_num>>))]

\* The second reverse loop left out: the reverse list keeps the old entry.
RemoveBlocks_skipped(g, dep_num, bug_num) == g

\* update_issue_metadata(dep_num, ..) of the second reverse loop: retain
\* everything but bug_num.
RemoveBlocks(g, dep_num, bug_num) ==
  [g EXCEPT !.blocks[dep_num] = Retain(@, Range(@) \ {bug_num})]

\* The record writes of one depend call, in program order: the subject's
\* forward list, then one blocks write per add id, then one per remove id.
DependWrites(bug_num, add_nums, remove_nums) ==
  <<[kind |-> "depends_on", id |-> bug_num]>>
  \o [i \in 1..Len(add_nums) |-> [kind |-> "add_blocks", id |-> add_nums[i]]]
  \o [i \in 1..Len(remove_nums) |-> [kind |-> "remove_blocks", id |-> remove_nums[i]]]

ApplyWrite(g, w, bug_num, add_nums, remove_nums) ==
  IF w.kind = "depends_on" THEN UpdateDependsOn(g, bug_num, add_nums, remove_nums)
  ELSE IF w.kind = "add_blocks" THEN AddBlocks(g, w.id, bug_num)
  ELSE RemoveBlocks(g, w.id, bug_num)

\* Runs the writes ws[i..] one after the other.  Each is followed by `?`:
\* the first write whose record is not found ends the call with an error
\* and the writes already made stay on disk.
RECURSIVE RunWrites(_, _, _, _, _, _)
RunWrites(g, ws, i, bug_num, add_nums, remove_nums) ==
  IF i > Len(ws) THEN [repo |-> g, result |-> "ok"]
  ELSE IF ~IssueExists(g, ws[i].id) THEN [repo |-> g, result |-> "not_found"]
  ELSE RunWrites(ApplyWrite(g, ws[i], bug_num, add_nums, remove_nums),
                 ws, i + 1, bug_num, add_nums, remove_nums)

\* Commands::would_create_cycle: depth-first search from dep_num over the
\* depends_on lists with an explicit stack (top = last element) and a
\* visited set; true as soon as bug_num is popped.
RECURSIVE CycleSearch(_, _, _, _)
CycleSearch(g, stack, visited, bug_num) ==
  IF stack = <<>> THEN FALSE
  ELSE LET current == stack[Len(stack)]
           rest    == SubSeq(stack, 1, Len(stack) - 1)
       IN  IF current = bug_num THEN TRUE
           ELSE IF current \in visited THEN CycleSearch(g, rest, visited, bug_num)
           ELSE LET seen == visited \cup {current}
                    deps == IF IssueExists(g, current)
                            THEN g.depends_on[current] ELSE <<>>
                    push == Retain(deps, Range(deps) \ seen)
                IN  CycleSearch(g, rest \o push, seen, bug_num)

\* The guard looking one edge deep only.
would_create_cycle_direct(g, bug_num, dep_num) ==
  \/ dep_num = bug_num
  \/ (IssueExists(g, dep_num) /\ Contains(g.depends_on[dep_num], bug_num))

\* The guard searching in the wrong direction: from bug_num for dep_num.
would_create_cycle_reversed(g, bug_num, dep_num) ==
  CycleSearch(g, <<bug_num>>, {}, dep_num)

\* The guard starting below dep_num, never comparing dep_num itself.
would_create_cycle_below(g, bug_num, dep_num) ==
  CycleSearch(g, IF IssueExists(g, dep_num) THEN g.depends_on[dep_num] ELSE <<>>,
              {dep_num}, bug_num)

would_create_cycle(g, bug_num, dep_num) ==
  CycleSearch(g, <<dep_num>>, {}, bug_num)

\* The existence check of the add references left out.
AddRefMissing_unchecked(g, add_nums) == FALSE

\* First loop of depend: every add reference must load.
AddRefMissing(g, add_nums) ==
  \E i \in 1..Len(add_nums) : ~IssueExists(g, add_nums[i])

\* The guard applied to the ids the subject already lists as well.
CycleCheckFails_existing(g, bug_num, add_nums) ==
  \E d \in Range(add_nums) \cup Range(g.depends_on[bug_num]) :
    would_create_cycle(g, bug_num, d)

\* The guard applied to the first add id only.
CycleCheckFails_first(g, bug_num, add_nums) ==
  add_nums # <<>> /\ would_create_cycle(g, bug_num, add_nums[1])

\* "Check for cycles before adding": some add id fails the guard.
CycleCheckFails(g, bug_num, add_nums) ==
  \E i \in 1..Len(add_nums) : would_create_cycle(g, bug_num, add_nums[i])

\* Commands::depend as a function of the repository: the repository it
\* leaves behind, how it returned and, on success, the depends_on it prints.
depend(g, bug_num, add_nums, remove_nums) ==
  IF AddRefMissing(g, add_nums)
    THEN [repo |-> g, result |-> "not_found", ret |-> <<>>]
  ELSE IF CycleCheckFails(g, bug_num, add_nums)
    THEN [repo |-> g, result |-> "cycle", ret |-> <<>>]
  ELSE LET r == RunWrites(g, DependWrites(bug_num, add_nums, remove_nums), 1,
                          bug_num, add_nums, remove_nums)
       IN  [repo |-> r.repo, result |-> r.result,
            ret |-> IF r.result = "ok" THEN r.repo.depends_on[bug_num] ELSE <<>>]

\* The MCP tool issues_depend: the same resolution and the same writes,
\* with no cycle check between them.
mcp_depend(g, bug_num, add_nums, remove_nums) ==
  IF AddRefMissing(g, add_nums)
    THEN [repo |-> g, result |-> "not_found", ret |-> <<>>]
  ELSE LET r == RunWrites(g, DependWrites(bug_num, add_nums, remove_nums), 1,
                          bug_num, add_nums, remove_nums)
       IN  [repo |-> r.repo, result |-> r.result,
            ret |-> IF r.result = "ok" THEN r.repo.depends_on[bug_num] ELSE <<>>]

\* ---------------------------------------------------------------- actions
NoCall ==
  [op |-> "none", subject |-> 0, add |-> <<>>, remove |-> <<>>,
   result |-> "none", ret |-> <<>>, pre |-> Repo({}, <<>>, <<>>)]

Init ==
  /\ issues = {}
  /\ depends_on = [n \in Ids |-> <<>>]
  /\ blocks = [n \in Ids |-> <<>>]
  /\ pc = "idle"
  /\ last = NoCall
  /\ closed = {}
  /\ calls = <<>>

Install(r, op, bug_num, add_nums, remove_nums) ==
  /\ issues' = r.repo.issues
  /\ depends_on' = r.repo.depends_on
  /\ blocks' = r.repo.blocks
  /\ pc' = "done"
  /\ last' = [op |-> op, subject |-> bug_num, add |-> add_nums,
              remove |-> remove_nums, result |-> r.result, ret |-> r.ret,
              pre |-> Current]
  /\ UNCHANGED <<closed, calls>>

\* `create`: a new record with the next free number and empty lists.
Create ==
  /\ pc = "idle"
  /\ next_bug_number(Current) <= NumIds
  /\ LET n == next_bug_number(Current)
     IN  Install([repo |-> [Current EXCEPT !.issues = @ \cup {n}],
                  result |-> "ok", ret |-> <<>>],
                 "create", n, <<>>, <<>>)

\* `depend <bug_ref> --on .. --remove ..` on the command line.
Depend ==
  /\ pc = "idle"
  /\ \E bug_num \in Ids, rq \in Requests :
       Install(depend(Current, bug_num, rq.add, rq.remove),
               "depend", bug_num, rq.add, rq.remove)

\* The MCP tool issues_depend.
McpDepend ==
  /\ pc = "idle"
  /\ \E bug_num \in Ids, rq \in Requests :
       Install(mcp_depend(Current, bug_num, rq.add, rq.remove),
               "mcp_depend", bug_num, rq.add, rq.remove)

\* The handler's result has been delivered; the next request can come.
Finish ==
  /\ pc = "done"
  /\ pc' = "idle"
  /\ last' = NoCall
  /\ UNCHANGED <<issues, depends_on, blocks, closed, calls>>

Next == Create \/ Depend \/ McpDepend \/ Finish

Spec == Init /\ [][Next]_vars

\* ------------------------------------------------- vocabulary of the claims
\* Prerequisites of n in snapshot g.
Prereqs(g, n) == Range(g.depends_on[n])

\* Least set containing S and closed under Prereqs.
RECURSIVE PrereqClosure(_, _)
PrereqClosure(g, S) ==
  LET T == S \cup UNION {Prereqs(g, n) : n \in S}
  IN  IF T = S THEN S ELSE PrereqClosure(g, T)

\* Everything a depends on, directly or transitively (one edge or more).
DependsOnPlus(g, a) == PrereqClosure(g, Prereqs(g, a))

\* Everything reachable from a by zero or more depends_on edges.
DependsOnStar(g, a) == PrereqClosure(g, {a})

\* I1: no issue lists itself.
I1(g) == \A n \in Ids : n \notin Prereqs(g, n)

\* I2: blocks is the transpose of depends_on.
I2(g) ==
  \A s \in Ids, d \in Ids :
    d \in Range(g.depends_on[s]) <=> s \in Range(g.blocks[d])

\* I3: no issue depends on itself through one edge or more.
Acyclic(g) == \A n \in Ids : n \notin DependsOnPlus(g, n)

\* s is ascending without duplicates.
StrictlyAscending(s) == \A i \in 1..Len(s), j \in 1..Len(s) : i < j => s[i] < s[j]

\* The ascending duplicate-free listing of the set S.
RECURSIVE AscendingList(_)
AscendingList(S) ==
  IF S = {} THEN <<>>
  ELSE LET m == CHOOSE x \in S : \A y \in S : x <= y
       IN  <<m>> \o AscendingList(S \ {m})

CliReturned == pc = "done" /\ last.op = "depend"
McpReturned == pc = "done" /\ last.op = "mcp_depend"
Unchanged == Current = last.pre
RefsExist == ({last.subject} \cup Range(last.add) \cup Range(last.remove)) \subseteq last.pre.issues

\* Some id of the request's add list can already reach the subject.
SomeAddReachesSubject ==
  \E i \in 1..Len(last.add) : last.subject \in DependsOnStar(last.pre, last.add[i])

TypeOK ==
  /\ issues \subseteq Ids
  /\ pc \in {"idle", "done"}
  /\ \A n \in Ids : StrictlyAscending(depends_on[n]) /\ StrictlyAscending(blocks[n])
  /\ \A n \in Ids \ issues : depends_on[n] = <<>> /\ blocks[n] = <<>>

\* ------------------------------------------------------------------ claims

\* C1 (symmetry, I2/P2): a completed CLI depend call whose subject, add ids
\* and remove ids all exist, started where blocks is the transpose of
\* depends_on, ends where it is the transpose again (accepted or rejected).
C1_SymmetryPreserved ==
  (CliReturned /\ RefsExist /\ I2(last.pre)) => I2(Current)

C1_Witness ==
  /\ CliReturned /\ RefsExist /\ I2(last.pre) /\ last.result = "ok"
  /\ \E d \in Range(last.add) :
       /\ d \notin Prereqs(last.pre, last.subject)
       /\ d \in Prereqs(Current, last.subject)
  /\ \E d \in Range(last.remove) :
       /\ d \in Prereqs(last.pre, last.subject)
       /\ d \notin Prereqs(Current, last.subject)

\* C2 (P3): when A already depends on B, directly or transitively, the CLI
\* call depend(B, add = [A]) fails with the cycle error and the depends_on
\* and blocks lists of A and of B are what they were.
C2_ReverseEdgeRejected ==
  \A A \in Ids :
    (CliReturned /\ last.add = <<A>> /\ last.subject \in DependsOnPlus(last.pre, A))
    => /\ last.result = "cycle"
       /\ \A n \in {A, last.subject} :
            /\ depends_on[n] = last.pre.depends_on[n]
            /\ blocks[n] = last.pre.blocks[n]

C2_Witness ==
  \E A \in Ids :
    /\ CliReturned /\ last.add = <<A>> /\ last.result = "cycle"
    /\ A # last.subject
    /\ Acyclic(last.pre)
    /\ last.subject \notin Prereqs(last.pre, A)
    /\ last.subject \in DependsOnPlus(last.pre, A)

\* C3 (I3): a CLI depend call started on an acyclic depends_on graph leaves
\* an acyclic graph, requests with several add ids included.
C3_AcyclicityPreserved ==
  (CliReturned /\ Acyclic(last.pre)) => Acyclic(Current)

C3_Witness ==
  /\ CliReturned /\ Acyclic(last.pre) /\ last.result = "ok"
  /\ Len(last.add) = 2 /\ last.add[1] # last.add[2]
  /\ Range(last.add) \cap Prereqs(last.pre, last.subject) = {}
  /\ Range(last.add) \subseteq Prereqs(Current, last.subject)
  /\ \E n \in Ids : Prereqs(last.pre, n) # {}

\* C4 (P1): depend(S, add containing S) for an existing S returns an error
\* and modifies no record, so the call does not put S into its own
\* depends_on.
C4_SelfDependencyRejected ==
  (CliReturned /\ last.subject \in last.pre.issues /\ last.subject \in Range(last.add))
  => /\ last.result # "ok"
     /\ Unchanged
     /\ (last.subject \notin Prereqs(last.pre, last.subject)
           => last.subject \notin Prereqs(Current, last.subject))

C4_Witness ==
  /\ CliReturned /\ last.result = "cycle"
  /\ Len(last.add) = 2 /\ last.add[2] = last.subject /\ last.add[1] # last.subject
  /\ last.add[1] \notin Prereqs(last.pre, last.subject)
  /\ I1(last.pre)

\* C5 (atomic abort): when some id of add fails the cycle check, at whatever
\* position, the CLI call returns an error and no record is modified.
C5_AtomicAbort ==
  (CliReturned /\ SomeAddReachesSubject) => (last.result # "ok" /\ Unchanged)

C5_Witness ==
  /\ CliReturned /\ last.result = "cycle" /\ Len(last.add) = 2
  /\ last.subject \notin DependsOnStar(last.pre, last.add[1])
  /\ last.add[1] \notin Prereqs(last.pre, last.subject)
  /\ last.subject # last.add[2]
  /\ last.subject \in DependsOnStar(last.pre, last.add[2])
  /\ \E d \in Range(last.remove) : d \in Prereqs(last.pre, last.subject)

\* C6: the MCP tool issues_depend applies the cycle guard: a request with an
\* add id that can already reach the subject (the subject itself included)
\* fails and writes nothing.
C6_McpGuard ==
  (McpReturned /\ RefsExist /\ SomeAddReachesSubject)
  => (last.result # "ok" /\ Unchanged)

\* C7: an add id with no record makes depend return the not-found error
\* with no record modified, whatever else the request names.
C7_AddNotFound ==
  ((CliReturned \/ McpReturned) /\ ~(Range(last.add) \subseteq last.pre.issues))
  => (last.result = "not_found" /\ Unchanged)

C7_Witness ==
  /\ CliReturned /\ last.result = "not_found"
  /\ Len(last.add) = 2
  /\ last.add[1] \in last.pre.issues /\ last.add[2] \notin last.pre.issues
  /\ last.subject \in last.pre.issues /\ last.subject # last.add[1]
  /\ last.add[1] \notin Prereqs(last.pre, last.subject)
  /\ \E d \in Range(last.remove) : d \in Prereqs(last.pre, last.subject)

\* C8: a missing subject or a missing remove id makes depend abort with an
\* error before any mutation: every depends_on and blocks list is unchanged.
C8_AbortBeforeMutation ==
  (CliReturned /\ ~(({last.subject} \cup Range(last.remove)) \subseteq last.pre.issues))
  => (last.result # "ok" /\ Unchanged)

\* C9 as stated (P8 for every repository state): re-adding a present
\* dependency, or removing an absent id, succeeds and changes nothing.
C9_IdempotentEverywhere ==
  \A D \in Ids :
    (/\ CliReturned /\ last.subject \in last.pre.issues
     /\ \/ (last.add = <<D>> /\ last.remove = <<>>
            /\ D \in Prereqs(last.pre, last.subject))
        \/ (last.add = <<>> /\ last.remove = <<D>>
            /\ D \notin Prereqs(last.pre, last.subject)))
    => (last.result = "ok" /\ Unchanged)

\* C9 amended: for existing issues S and D whose pair is symmetric
\* (D in S.depends_on iff S in D.blocks), re-adding a present D that cannot
\* reach S, or removing an absent D, succeeds and changes nothing; and a
\* successful request applied again succeeds and changes nothing.
C9_Idempotent ==
  /\ \A D \in Ids :
       (/\ CliReturned /\ {last.subject, D} \subseteq last.pre.issues
        /\ (D \in Prereqs(last.pre, last.subject)
              <=> last.subject \in Range(last.pre.blocks[D]))
        /\ \/ (last.add = <<D>> /\ last.remove = <<>>
               /\ D \in Prereqs(last.pre, last.subject)
               /\ last.subject \notin DependsOnStar(last.pre, D))
           \/ (last.add = <<>> /\ last.remove = <<D>>
               /\ D \notin Prereqs(last.pre, last.subject)))
       => (last.result = "ok" /\ Unchanged)
  /\ (CliReturned /\ last.result = "ok")
       => depend(Current, last.subject, last.add, last.remove)
            = [repo |-> Current, result |-> "ok", ret |-> last.ret]

C9_Witness ==
  /\ CliReturned /\ last.result = "ok" /\ Unchanged
  /\ Len(last.add) = 1 /\ last.remove = <<>>
  /\ last.add[1] \in Prereqs(last.pre, last.subject)
  /\ Len(last.pre.depends_on[last.subject]) = 2
  /\ Len(last.pre.blocks[last.add[1]]) = 2

\* C10: after a successful depend the subject's depends_on, which is the
\* value returned, is ((old depends_on \cup add) \ remove) in ascending
\* order without duplicates.
C10_ResultList ==
  (CliReturned /\ last.result = "ok")
  => /\ depends_on[last.subject]
          = AscendingList((Prereqs(last.pre, last.subject) \cup Range(last.add))
                          \ Range(last.remove))
     /\ last.ret = depends_on[last.subject]

C10_Witness ==
  /\ CliReturned /\ last.result = "ok"
  /\ Range(last.add) \cap Range(last.remove) # {}
  /\ \E d \in Range(last.add) \ Range(last.remove) :
       /\ d \notin Prereqs(last.pre, last.subject)
       /\ \E e \in Prereqs(last.pre, last.subject) \ Range(last.remove) : d < e
  /\ Len(depends_on[last.subject]) = 2

\* C11: after a successful depend the subject is in the blocks list of every
\* add id that is not also removed, that list being ascending without
\* duplicates, and in the blocks list of no remove id.
C11_ReverseLists ==
  (CliReturned /\ last.result = "ok")
  => /\ \A d \in Range(last.add) \ Range(last.remove) :
          /\ last.subject \in Range(blocks[d])
          /\ StrictlyAscending(blocks[d])
     /\ \A d \in Range(last.remove) : last.subject \notin Range(blocks[d])

C11_Witness ==
  /\ CliReturned /\ last.result = "ok"
  /\ Range(last.add) \cap Range(last.remove) # {}
  /\ \E d \in Range(last.add) \ Range(last.remove) :
       /\ last.subject \notin Range(last.pre.blocks[d])
       /\ \E b \in Range(last.pre.blocks[d]) : last.subject < b
  /\ \E d \in Range(last.remove) : last.subject \in Range(last.pre.blocks[d])

\* C14: a depend request with empty add and remove lists is rejected with an
\* error and writes nothing.
C14_EmptyRequestRejected ==
  (CliReturned /\ last.add = <<>> /\ last.remove = <<>>)
  => (last.result # "ok" /\ Unchanged)

\* ------------------------------------------------ storage that can fail
\* The error of the failing write dropped (`let _ =` for `?`): the call goes
\* on with the next write.
RECURSIVE RunWritesUntil_swallowed(_, _, _, _, _, _, _)
RunWritesUntil_swallowed(g, ws, i, fail, bug_num, add_nums, remove_nums) ==
  IF i > Len(ws) THEN [repo |-> g, result |-> "ok"]
  ELSE IF ~IssueExists(g, ws[i].id) THEN [repo |-> g, result |-> "not_found"]
  ELSE RunWritesUntil_swallowed(
         IF i = fail THEN g ELSE ApplyWrite(g, ws[i], bug_num, add_nums, remove_nums),
         ws, i + 1, fail, bug_num, add_nums, remove_nums)

\* The writes ws[i..] as in RunWrites, except that write number `fail` (0:
\* none) returns an I/O error from update_issue_metadata and leaves its
\* record as it was.  The `?` after every update ends the call right there.
RECURSIVE RunWritesUntil(_, _, _, _, _, _, _)
RunWritesUntil(g, ws, i, fail, bug_num, add_nums, remove_nums) ==
  IF i > Len(ws) THEN [repo |-> g, result |-> "ok"]
  ELSE IF ~IssueExists(g, ws[i].id) THEN [repo |-> g, result |-> "not_found"]
  ELSE IF i = fail THEN [repo |-> g, result |-> "io_error"]
  ELSE RunWritesUntil(ApplyWrite(g, ws[i], bug_num, add_nums, remove_nums),
                      ws, i + 1, fail, bug_num, add_nums, remove_nums)

\* Commands::depend over storage whose write number `fail` fails.
depend_with_fault(g, bug_num, add_nums, remove_nums, fail) ==
  IF AddRefMissing(g, add_nums)
    THEN [repo |-> g, result |-> "not_found", ret |-> <<>>]
  ELSE IF CycleCheckFails(g, bug_num, add_nums)
    THEN [repo |-> g, result |-> "cycle", ret |-> <<>>]
  ELSE LET r == RunWritesUntil(g, DependWrites(bug_num, add_nums, remove_nums), 1,
                               fail, bug_num, add_nums, remove_nums)
       IN  [repo |-> r.repo, result |-> r.result,
            ret |-> IF r.result = "ok" THEN r.repo.depends_on[bug_num] ELSE <<>>]

\* The call gets as far as its write number `fail`.
ReachesWrite(g, bug_num, add_nums, remove_nums, fail) ==
  LET ws == DependWrites(bug_num, add_nums, remove_nums)
  IN  /\ fail \in 1..Len(ws)
      /\ ~AddRefMissing(g, add_nums)
      /\ ~CycleCheckFails(g, bug_num, add_nums)
      /\ \A i \in 1..fail : IssueExists(g, ws[i].id)

\* A CLI depend call one of whose record writes fails.
DependWriteFails ==
  /\ pc = "idle"
  /\ \E bug_num \in Ids, rq \in Requests, fail \in 1..(1 + MaxRequest) :
       /\ ReachesWrite(Current, bug_num, rq.add, rq.remove, fail)
       /\ LET r == depend_with_fault(Current, bug_num, rq.add, rq.remove, fail)
          IN  /\ issues' = r.repo.issues
              /\ depends_on' = r.repo.depends_on
              /\ blocks' = r.repo.blocks
              /\ pc' = "done"
              /\ last' = [op |-> "depend", subject |-> bug_num, add |-> rq.add,
                          remove |-> rq.remove, result |-> r.result, ret |-> r.ret,
                          pre |-> Current, fail |-> fail]
  /\ UNCHANGED <<closed, calls>>

Faulted == pc = "done" /\ "fail" \in DOMAIN last

\* The caller runs the failed request again; this time every write succeeds.
Retry ==
  /\ Faulted /\ last.op = "depend"
  /\ LET r == depend(Current, last.subject, last.add, last.remove)
     IN  /\ issues' = r.repo.issues
         /\ depends_on' = r.repo.depends_on
         /\ blocks' = r.repo.blocks
         /\ pc' = "done"
         /\ last' = [last EXCEPT !.op = "retry", !.result = r.result, !.ret = r.ret]
  /\ UNCHANGED <<closed, calls>>

\* A failed call is always retried before its result is put aside.
FinishSettled == (Faulted => last.op = "retry") /\ Finish

NextFail == Create \/ Depend \/ DependWriteFails \/ Retry \/ FinishSettled

SpecFail == Init /\ [][NextFail]_vars

\* Add ids and remove ids whose blocks write was completed before write
\* number `fail` of the last call failed.
AddsDone == {last.add[i] : i \in {k \in 1..Len(last.add) : k + 1 < last.fail}}
RemovesDone ==
  {last.remove[j] : j \in {k \in 1..Len(last.remove) : k + 1 + Len(last.add) < last.fail}}

\* C12: when a blocks write fails after the subject's depends_on was
\* persisted, depend returns an error, and the new depends_on and the blocks
\* writes completed before the failure are on disk as written (no rollback);
\* nothing else has changed.
C12_PartialWriteSurfaced ==
  (Faulted /\ last.op = "depend" /\ last.fail >= 2)
  => /\ last.result # "ok"
     /\ depends_on[last.subject]
          = AscendingList((Prereqs(last.pre, last.subject) \cup Range(last.add))
                          \ Range(last.remove))
     /\ \A n \in Ids \ {last.subject} : depends_on[n] = last.pre.depends_on[n]
     /\ \A d \in Ids :
          Range(blocks[d])
            = ((Range(last.pre.blocks[d])
                 \cup (IF d \in AddsDone THEN {last.subject} ELSE {}))
               \ (IF d \in RemovesDone THEN {last.subject} ELSE {}))

C12_Witness ==
  /\ Faulted /\ last.op = "depend" /\ last.result = "io_error"
  /\ I2(last.pre) /\ ~I2(Current)
  /\ last.fail = Len(last.add) + Len(last.remove) + 1
  /\ \E d \in AddsDone : last.subject \notin Range(last.pre.blocks[d])
  /\ \E d \in Range(last.remove) : d \in Prereqs(last.pre, last.subject)

\* C13: a request that failed with a partial write in a state satisfying
\* I2, run again with every write succeeding, is accepted and ends in the
\* state one fully successful run from the original state produces, where
\* I2 holds again.
C13_RetryRepairs ==
  (Faulted /\ last.op = "retry" /\ I2(last.pre) /\ RefsExist)
  => /\ last.result = "ok"
     /\ Current = depend(last.pre, last.subject, last.add, last.remove).repo
     /\ last.ret = depends_on[last.subject]
     /\ I2(Current)

C13_Witness ==
  /\ Faulted /\ last.op = "retry" /\ last.result = "ok"
  /\ I2(last.pre) /\ RefsExist /\ last.fail >= 3
  /\ \E d \in Range(last.add) \ Range(last.remove) :
       d \notin Prereqs(last.pre, last.subject)
  /\ \E d \in Range(last.remove) : d \in Prereqs(last.pre, last.subject)

\* ------------------------------------------- read-only graph diagnostics
\* The diagnostics read the open issues (list_open_issues, ascending by id).
\* In the graph g they are called with, g.issues holds the ids that have a
\* record in that working set and g.depends_on[n] the list of record n; an id
\* without a record (closed, or never created) has no list.
NumNodes == 4

Nodes == 1..NumNodes

\* HashMap::insert.
MapInsert(f, k, x) == [n \in DOMAIN f \cup {k} |-> IF n = k THEN x ELSE f[n]]

\* Vec::reverse.
Reverse(s) == [i \in 1..Len(s) |-> s[Len(s) + 1 - i]]

Min(a, b) == IF a < b THEN a ELSE b

\* The state strongconnect works on; `panic` records an unwrap of None.
TarjanStart ==
  [index |-> 0, stack |-> <<>>, indices |-> [n \in {} |-> 0],
   lowlinks |-> [n \in {} |-> 0], on_stack |-> {}, cycles |-> <<>>,
   panic |-> FALSE]

\* `if scc.len() > 1 { scc.reverse(); cycles.push(scc) }`
ReportScc(st, scc) ==
  IF Len(scc) > 1 THEN [st EXCEPT !.cycles = Append(@, Reverse(scc))] ELSE st

\* The loop that pops the stack down to v and collects the component.
RECURSIVE PopScc(_, _, _)
PopScc(v, st, scc) ==
  IF st.stack = <<>> THEN [st EXCEPT !.panic = TRUE]
  ELSE LET w == st.stack[Len(st.stack)]
           st1 == [st EXCEPT !.stack = SubSeq(@, 1, Len(@) - 1),
                             !.on_stack = @ \ {w}]
           scc1 == Append(scc, w)
       IN  IF w = v THEN ReportScc(st1, scc1) ELSE PopScc(v, st1, scc1)

\* The on-stack branch left out: a dependency already on the stack does not
\* lower v's lowlink.
OnStackLowlink_ignored(st, v, dep) == st

\* `else if on_stack.contains(&dep)`: v's lowlink drops to dep's index.
OnStackLowlink(st, v, dep) ==
  IF dep \in st.on_stack
  THEN [st EXCEPT !.lowlinks[v] = Min(@, st.indices[dep])]
  ELSE st

RECURSIVE strongconnect(_, _, _)
RECURSIVE VisitDeps(_, _, _, _, _)

\* The loop of strongconnect over the dependencies of v, from the i-th on.
VisitDeps(v, deps, i, g, st) ==
  IF i > Len(deps) THEN st
  ELSE LET dep == deps[i]
           st1 == IF dep \notin DOMAIN st.indices
                  THEN LET r == strongconnect(dep, g, st)
                       IN  [r EXCEPT !.lowlinks[v] = Min(@, r.lowlinks[dep])]
                  ELSE OnStackLowlink(st, v, dep)
       IN  VisitDeps(v, deps, i + 1, g, st1)

strongconnect(v, g, st) ==
  LET st1 == [st EXCEPT !.indices = MapInsert(@, v, st.index),
                        !.lowlinks = MapInsert(@, v, st.index),
                        !.index = @ + 1,
                        !.stack = Append(@, v),
                        !.on_stack = @ \cup {v}]
      st2 == IF v \in g.issues
             THEN VisitDeps(v, g.depends_on[v], 1, g, st1)
             ELSE st1
  IN  IF st2.lowlinks[v] = st2.indices[v] THEN PopScc(v, st2, <<>>) ELSE st2

\* The loop of find_cycles over the issues, from the i-th on.
RECURSIVE Tarjan(_, _, _, _)
Tarjan(g, ids, i, st) ==
  IF i > Len(ids) THEN st
  ELSE Tarjan(g, ids, i + 1,
              IF ids[i] \notin DOMAIN st.indices
              THEN strongconnect(ids[i], g, st)
              ELSE st)

\* find_cycles: the final state, whose `cycles` is the returned list.
find_cycles(g) == Tarjan(g, AscendingList(g.issues), 1, TarjanStart)

\* `>=` for `>`: a chain of equal length replaces `longest` too.
Longer_or_equal(current_chain, longest) ==
  IF Len(current_chain) >= Len(longest) THEN current_chain ELSE longest

\* `longest` kept unless it is empty.
Longer_first(current_chain, longest) ==
  IF longest = <<>> THEN current_chain ELSE longest

\* `if current_chain.len() > longest.len() { *longest = current_chain.clone() }`
Longer(current_chain, longest) ==
  IF Len(current_chain) > Len(longest) THEN current_chain ELSE longest

RECURSIVE find_chain(_, _, _, _, _)
RECURSIVE ChainLoop(_, _, _, _, _, _, _)

\* The loop of find_chain over the issues, from the i-th on: every issue that
\* lists issue_id continues the chain.
ChainLoop(issue_id, g, visited, current_chain, longest, ids, i) ==
  IF i > Len(ids) THEN longest
  ELSE ChainLoop(issue_id, g, visited, current_chain,
                 IF Contains(g.depends_on[ids[i]], issue_id)
                 THEN find_chain(ids[i], g, visited, current_chain, longest)
                 ELSE longest,
                 ids, i + 1)

\* find_chain returns `longest`; visited and current_chain are back to what
\* they were when it returns (pop, remove).
find_chain(issue_id, g, visited, current_chain, longest) ==
  IF issue_id \in visited THEN longest
  ELSE LET chain1 == Append(current_chain, issue_id)
       IN  ChainLoop(issue_id, g, visited \cup {issue_id}, chain1,
                     Longer(chain1, longest), AscendingList(g.issues), 1)

\* The loop of critical_path that starts a search from every issue.
RECURSIVE StartLoop(_, _, _, _)
StartLoop(g, ids, i, longest) ==
  IF i > Len(ids) THEN longest
  ELSE StartLoop(g, ids, i + 1, find_chain(ids[i], g, {}, <<>>, longest))

longest_chain(g) == StartLoop(g, AscendingList(g.issues), 1, <<>>)

\* The dependents are not followed.
Dependents_none(g, id, result) == <<>>

\* The issues, in order, that list id and are not in result.
Dependents(g, id, result) ==
  SelectSeq(AscendingList(g.issues),
            LAMBDA n : Contains(g.depends_on[n], id) /\ n \notin result)

\* The dependencies of id that are not in result, if id has a record.
Dependencies(g, id, result) ==
  IF id \in g.issues
  THEN SelectSeq(g.depends_on[id], LAMBDA dep : dep \notin result)
  ELSE <<>>

\* `while let Some(id) = to_visit.pop()`
RECURSIVE ClosureLoop(_, _, _)
ClosureLoop(g, to_visit, result) ==
  IF to_visit = <<>> THEN result
  ELSE LET id == to_visit[Len(to_visit)]
           rest == SubSeq(to_visit, 1, Len(to_visit) - 1)
       IN  IF id \in result THEN ClosureLoop(g, rest, result)
           ELSE LET result1 == result \cup {id}
                IN  ClosureLoop(g,
                                rest \o Dependencies(g, id, result1)
                                     \o Dependents(g, id, result1),
                                result1)

get_dependency_closure(g, root) == AscendingList(ClosureLoop(g, <<root>>, {}))

\* `any` for `all`: one settled dependency is enough.
all_deps_assigned_any(g, issue_ids, assigned, id) ==
  \E dep \in Range(g.depends_on[id]) :
    dep \in assigned \/ ~Contains(issue_ids, dep)

\* Every issue counts as ready.
all_deps_assigned_always(g, issue_ids, assigned, id) == TRUE

all_deps_assigned(g, issue_ids, assigned, id) ==
  \A dep \in Range(g.depends_on[id]) :
    dep \in assigned \/ ~Contains(issue_ids, dep)

\* Only the first remaining id is dumped.
Fallback_first(remaining) == <<Head(remaining)>>

\* `current_layer = remaining.clone()`
Fallback(remaining) == remaining

\* `while !remaining.is_empty()`; `fallback` collects the numbers of the
\* layers that the fallback produced.
RECURSIVE LayerLoop(_, _, _, _, _, _)
LayerLoop(g, issue_ids, layers, assigned, remaining, fallback) ==
  IF remaining = <<>> THEN [layers |-> layers, fallback |-> fallback]
  ELSE LET eligible ==
             SelectSeq(remaining,
                       LAMBDA id : /\ id \in g.issues
                                   /\ all_deps_assigned(g, issue_ids, assigned, id))
           current_layer ==
             IF eligible = <<>> THEN Fallback(remaining) ELSE eligible
           assigned1 == assigned \cup Range(current_layer)
       IN  LayerLoop(g, issue_ids,
                     Append(layers, SortUnstable(current_layer)),
                     assigned1,
                     Retain(remaining, Range(remaining) \ assigned1),
                     IF eligible = <<>>
                     THEN fallback \cup {Len(layers) + 1} ELSE fallback)

compute_graph_layers(g, issue_ids) == LayerLoop(g, issue_ids, <<>>, {}, issue_ids, {})

\* deps_graph: the ids that are drawn; focus 0 stands for no focus issue.
relevant_issues(g, focus) ==
  IF focus = 0 THEN AscendingList(g.issues) ELSE get_dependency_closure(g, focus)

\* The working sets: any set of open issues, each with an ascending list
\* without duplicates (what depend writes) of ids that may or may not have a
\* record.
Transpose(is, dep) ==
  [d \in Nodes |-> AscendingList({s \in is : Contains(dep[s], d)})]

InitGraph ==
  /\ \E is \in SUBSET Nodes :
       /\ issues = is
       /\ \E lists \in [is -> SUBSET Nodes] :
            depends_on = [n \in Nodes |->
                            IF n \in is THEN AscendingList(lists[n]) ELSE <<>>]
  /\ blocks = Transpose(issues, depends_on)
  /\ pc = "idle"
  /\ last = NoCall
  /\ closed = {}
  /\ calls = <<>>

\* `critical-path`
CriticalPath ==
  /\ pc = "idle"
  /\ pc' = "done"
  /\ LET t == find_cycles(Current)
     IN  last' = [op |-> "critical_path", cycles |-> t.cycles, panic |-> t.panic,
                  chain |-> longest_chain(Current)]
  /\ UNCHANGED <<issues, depends_on, blocks, closed, calls>>

\* `deps-graph [issue]`
DepsGraph ==
  /\ pc = "idle"
  /\ issues # {}
  /\ pc' = "done"
  /\ \E focus \in 0..NumNodes :
       LET ids == relevant_issues(Current, focus)
           r == compute_graph_layers(Current, ids)
       IN  last' = [op |-> "deps_graph", focus |-> focus, ids |-> ids,
                    layers |-> r.layers, fallback |-> r.fallback]
  /\ UNCHANGED <<issues, depends_on, blocks, closed, calls>>

NextGraph == CriticalPath \/ DepsGraph

SpecGraph == InitGraph /\ [][NextGraph]_vars

GraphTypeOK ==
  /\ issues \subseteq Nodes
  /\ \A n \in Nodes : StrictlyAscending(depends_on[n]) /\ Range(depends_on[n]) \subseteq Nodes
  /\ pc \in {"idle", "done"}

\* ----------------------------------------- vocabulary of the graph claims
CriticalPathReturned == pc = "done" /\ last.op = "critical_path"
DepsGraphReturned == pc = "done" /\ last.op = "deps_graph"

\* The strongly connected component of n: the ids that reach n and are
\* reached from n along depends_on edges.
SCC(g, n) ==
  {m \in Nodes : m \in DependsOnStar(g, n) /\ n \in DependsOnStar(g, m)}

GraphAcyclic(g) == \A n \in Nodes : n \notin DependsOnPlus(g, n)

NoSelfLoop(g) == \A n \in Nodes : n \notin Prereqs(g, n)

\* The graph with exactly the given open issues and lists.
IsGraph(is, dep) ==
  /\ issues = is
  /\ depends_on = [n \in Nodes |-> IF n \in DOMAIN dep THEN dep[n] ELSE <<>>]

\* The chains of open issues without a repeated id in which every issue
\* lists its predecessor.
SimpleChains(g) ==
  {c \in UNION {[1..k -> g.issues] : k \in 0..Cardinality(g.issues)} :
     /\ \A i \in 1..Len(c), j \in 1..Len(c) : i # j => c[i] # c[j]
     /\ \A i \in 1..(Len(c) - 1) : Contains(g.depends_on[c[i + 1]], c[i])}

\* The ids one depends_on edge away from n, in either direction.
Neighbours(g, n) == Prereqs(g, n) \cup {s \in g.issues : n \in Prereqs(g, s)}

\* Least set containing S and closed under Neighbours.
RECURSIVE Connected(_, _)
Connected(g, S) ==
  LET T == S \cup UNION {Neighbours(g, n) : n \in S}
  IN  IF T = S THEN S ELSE Connected(g, T)

\* g with only the edges between ids of S.
Restrict(g, S) ==
  [g EXCEPT !.depends_on =
     [n \in Nodes |-> IF n \in S THEN Retain(g.depends_on[n], S) ELSE <<>>]]

LayerOf(layers, n) == CHOOSE i \in 1..Len(layers) : n \in Range(layers[i])

\* ------------------------------------------------------ claims, continued
\* C15: find_cycles ends without panic and returns exactly the strongly
\* connected components with more than one id, each once and pairwise
\* disjoint, whether or not ids without a record are listed; the triangle
\* 1->2->3->1 gives the single component {1,2,3}; without self-loops the
\* result is empty exactly when the graph is acyclic.
C15_FindCycles ==
  CriticalPathReturned
  => LET big == {c \in {SCC(Current, n) : n \in Nodes} : Cardinality(c) > 1}
         cs == last.cycles
     IN  /\ ~last.panic
         /\ {Range(cs[i]) : i \in 1..Len(cs)} = big
         /\ Len(cs) = Cardinality(big)
         /\ \A i \in 1..Len(cs) : Len(cs[i]) = Cardinality(Range(cs[i]))
         /\ \A i \in 1..Len(cs), j \in 1..Len(cs) :
              i # j => Range(cs[i]) \cap Range(cs[j]) = {}
         /\ IsGraph({1, 2, 3}, <<<<2>>, <<3>>, <<1>>>>)
              => (Len(cs) = 1 /\ Range(cs[1]) = {1, 2, 3})
         /\ NoSelfLoop(Current) => (cs = <<>> <=> GraphAcyclic(Current))

C15_Witness ==
  /\ CriticalPathReturned
  /\ Len(last.cycles) = 1
  /\ Len(last.cycles[1]) = 3
  /\ \E n \in issues : ~(Prereqs(Current, n) \subseteq issues)

\* C16: the critical-path search ends, cycles or not, with a chain of open
\* issues without a repeated id in which every issue lists its predecessor,
\* and no such chain is longer; "1 depends on 2, 3 depends on 1" gives
\* length 3, no issues give the empty chain.
C16_LongestChain ==
  CriticalPathReturned
  => /\ last.chain \in SimpleChains(Current)
     /\ \A c \in SimpleChains(Current) : Len(c) <= Len(last.chain)
     /\ IsGraph({1, 2, 3}, <<<<2>>, <<>>, <<1>>>>) => Len(last.chain) = 3
     /\ issues = {} => last.chain = <<>>

C16_Witness ==
  /\ CriticalPathReturned
  /\ ~GraphAcyclic(Current)
  /\ Cardinality(issues) = 4
  /\ Len(last.chain) = 3

\* The diamond with A = 1, B = 2, C = 3, D = 4.
Diamond == IsGraph({1, 2, 3, 4}, <<<<2, 3>>, <<4>>, <<4>>, <<>>>>)

\* C17: on the diamond, closure(D) = {A,B,C,D} and closure(B) = {A,B,D}.
C17_DiamondClosure ==
  (DepsGraphReturned /\ Diamond)
  => /\ last.focus = 4 => last.ids = <<1, 2, 3, 4>>
     /\ last.focus = 2 => last.ids = <<1, 2, 4>>

\* C18: the closure of a root ends, cycles or not, with the root and exactly
\* the ids joined to it by depends_on edges taken in either direction, in
\* ascending order without duplicates.
C18_Closure ==
  (DepsGraphReturned /\ last.focus # 0)
  => /\ last.focus \in Range(last.ids)
     /\ Range(last.ids) = Connected(Current, {last.focus})
     /\ StrictlyAscending(last.ids)

C18_Witness ==
  /\ DepsGraphReturned /\ last.focus # 0
  /\ ~GraphAcyclic(Current)
  /\ Cardinality(issues) = 4
  /\ Len(last.ids) = 3
  /\ Prereqs(Current, last.focus) = {}
  /\ \E n \in Range(last.ids) : n \notin Neighbours(Current, last.focus) \cup {last.focus}

\* C19: when every drawn id has a record and the edges between the drawn ids
\* form no cycle, every id is in a later layer than each of its prerequisites
\* that is drawn, and every layer is ascending; "1 depends on 2, 2 depends on
\* 3" gives the layers 3, 2, 1.
C19_Layering ==
  (/\ DepsGraphReturned
   /\ Range(last.ids) \subseteq issues
   /\ GraphAcyclic(Restrict(Current, Range(last.ids))))
  => /\ \A n \in Range(last.ids) :
          \A p \in Prereqs(Current, n) \cap Range(last.ids) :
            LayerOf(last.layers, p) < LayerOf(last.layers, n)
     /\ \A i \in 1..Len(last.layers) : StrictlyAscending(last.layers[i])
     /\ (IsGraph({1, 2, 3}, <<<<2>>, <<3>>, <<>>>>) /\ last.focus = 0)
          => last.layers = <<<<3>>, <<2>>, <<1>>>>

C19_Witness ==
  /\ DepsGraphReturned
  /\ Range(last.ids) \subseteq issues
  /\ GraphAcyclic(Restrict(Current, Range(last.ids)))
  /\ Len(last.layers) >= 2
  /\ \E i \in 1..Len(last.layers) : Len(last.layers[i]) >= 2
  /\ \E n \in Range(last.ids) : ~(Prereqs(Current, n) \subseteq Range(last.ids))

\* C20: layers ends, cycles or not, with every drawn id in exactly one
\* layer, no layer empty, and a fallback layer only as the last layer.
C20_LayersPartition ==
  DepsGraphReturned
  => /\ \A n \in Range(last.ids) :
          Cardinality({i \in 1..Len(last.layers) : n \in Range(last.layers[i])}) = 1
     /\ \A i \in 1..Len(last.layers) :
          /\ last.layers[i] # <<>>
          /\ Range(last.layers[i]) \subseteq Range(last.ids)
          /\ Len(last.layers[i]) = Cardinality(Range(last.layers[i]))
     /\ last.fallback \subseteq {Len(last.layers)}

C20_Witness ==
  /\ DepsGraphReturned
  /\ ~GraphAcyclic(Restrict(Current, Range(last.ids)))
  /\ last.fallback # {}
  /\ Len(last.layers) >= 2
  /\ Len(last.layers[Len(last.layers)]) >= 2

\* ------------------------------------------------------- close and reopen
\* The records and the directory each is in.  Every file is named by
\* save_issue from the id and the title, so a record keeps its file name.
Store(g, cl) == [repo |-> g, closed |-> cl]

\* Storage::update_issue_metadata with a closure that sets status and
\* closed only: the lists are parsed and written back as they are.
SetStatus(st, bug_num) ==
  IF IssueExists(st.repo, bug_num)
  THEN [store |-> st, result |-> "ok"]
  ELSE [store |-> st, result |-> "not_found"]

\* Storage::move_issue: the record is written to the destination directory
\* under the same file name, then the source file is removed.  When the
\* record already is in the destination directory the file written is the
\* file removed.
move_issue(st, bug_num, to_open) ==
  IF ~IssueExists(st.repo, bug_num) THEN [store |-> st, result |-> "not_found"]
  ELSE IF to_open = (bug_num \notin st.closed)
  THEN [store |-> Store([issues |-> st.repo.issues \ {bug_num},
                         depends_on |-> [st.repo.depends_on EXCEPT ![bug_num] = <<>>],
                         blocks |-> [st.repo.blocks EXCEPT ![bug_num] = <<>>]],
                        st.closed \ {bug_num}),
        result |-> "ok"]
  ELSE [store |-> Store(st.repo,
                        IF to_open THEN st.closed \ {bug_num}
                        ELSE st.closed \cup {bug_num}),
        result |-> "ok"]

\* save_issue(&issue, bug_num, true) of a loaded record: the record is (also)
\* in issues/open afterwards, where find_issue_file looks first.
SaveToOpen(st, bug_num) == Store(st.repo, st.closed \ {bug_num})

\* Commands::close; with_note says whether a closing message was given.
close(st, bug_num, with_note) ==
  LET u == SetStatus(st, bug_num)
  IN  IF u.result # "ok" THEN u
      ELSE move_issue(IF with_note THEN SaveToOpen(u.store, bug_num) ELSE u.store,
                      bug_num, FALSE)

\* Commands::open.
open(st, bug_num) ==
  LET u == SetStatus(st, bug_num)
  IN  IF u.result # "ok" THEN u ELSE move_issue(u.store, bug_num, TRUE)

\* Commands::close_data without a message: the status changes, the file
\* stays where it is.
close_data(st, bug_num) == SetStatus(st, bug_num)

\* Commands::open_data.
open_data(st, bug_num) ==
  LET u == SetStatus(st, bug_num)
  IN  IF u.result # "ok" THEN u ELSE move_issue(u.store, bug_num, TRUE)

InstallStore(r, op, bug_num) ==
  /\ issues' = r.store.repo.issues
  /\ depends_on' = r.store.repo.depends_on
  /\ blocks' = r.store.repo.blocks
  /\ closed' = r.store.closed
  /\ pc' = "done"
  /\ last' = [op |-> op, subject |-> bug_num, add |-> <<>>, remove |-> <<>>,
              result |-> r.result, ret |-> <<>>, pre |-> Current,
              pre_closed |-> closed]
  /\ UNCHANGED calls

\* `close <bug_ref> [-m message]`, also the MCP status tool with "close".
Close ==
  /\ pc = "idle"
  /\ \E bug_num \in Ids, with_note \in BOOLEAN :
       InstallStore(close(Store(Current, closed), bug_num, with_note), "close", bug_num)

\* `open <bug_ref>`, also the MCP status tool with "reopen".
Open ==
  /\ pc = "idle"
  /\ \E bug_num \in Ids :
       InstallStore(open(Store(Current, closed), bug_num), "open", bug_num)

\* The simple MCP server's "close".
CloseData ==
  /\ pc = "idle"
  /\ \E bug_num \in Ids :
       InstallStore(close_data(Store(Current, closed), bug_num), "close_data", bug_num)

\* The simple MCP server's "reopen".
OpenData ==
  /\ pc = "idle"
  /\ \E bug_num \in Ids :
       InstallStore(open_data(Store(Current, closed), bug_num), "open_data", bug_num)

NextLifecycle ==
  Create \/ Depend \/ Close \/ Open \/ CloseData \/ OpenData \/ Finish

SpecLifecycle == Init /\ [][NextLifecycle]_vars

StatusReturned ==
  pc = "done" /\ last.op \in {"close", "open", "close_data", "open_data"}

\* C21: closing or reopening an issue leaves every depends_on and blocks
\* list as it was, and so does every operation other than depend.
C21_EdgesSurviveCloseAndReopen ==
  (pc = "done" /\ last.op \notin {"depend", "none"})
  => (depends_on = last.pre.depends_on /\ blocks = last.pre.blocks)

\* ------------------------------------------------------ the guard by itself
\* The guard as depend calls it: for a subject and an add id whose record
\* was loaded, on any stored graph.
CycleGuard ==
  /\ pc = "idle"
  /\ pc' = "done"
  /\ \E bug_num \in Nodes, dep_num \in issues :
       last' = [op |-> "would_create_cycle", from |-> bug_num, to |-> dep_num,
                ret |-> would_create_cycle(Current, bug_num, dep_num),
                pre |-> Current]
  /\ UNCHANGED <<issues, depends_on, blocks, closed, calls>>

NextGuard == CycleGuard

SpecGuard == InitGraph /\ [][NextGuard]_vars

GuardReturned == pc = "done" /\ last.op = "would_create_cycle"

\* C22: the guard ends on every graph, cyclic or not, and answers true
\* exactly when `from` is reached from `to` along zero or more depends_on
\* edges; no record changes.
C22_GuardExact ==
  GuardReturned
  => /\ last.ret = (last.from \in DependsOnStar(Current, last.to))
     /\ last.from = last.to => last.ret
     /\ Current = last.pre

C22_Witness ==
  /\ GuardReturned
  /\ last.ret
  /\ last.from # last.to
  /\ last.from \notin Prereqs(Current, last.to)
  /\ \E n \in Nodes : n \in DependsOnPlus(Current, n) /\ n \in DependsOnStar(Current, last.to)
  /\ \E n \in issues : ~(Prereqs(Current, n) \subseteq issues)

\* C23: whenever a scan of layers finds no eligible id while ids remain, the
\* depends_on edges between the drawn ids contain a cycle.
C23_FallbackOnlyByCycle ==
  (DepsGraphReturned /\ last.fallback # {})
  => ~GraphAcyclic(Restrict(Current, Range(last.ids)))

\* ------------------------------------------------- concurrent depend calls
\* Several depend calls run at once on one repository.  A call first checks
\* its add ids and runs the guard, then makes its record writes in program
\* order; every write is Storage::update_issue_metadata, which reads the
\* record's file and later writes it back whole, with nothing that keeps
\* another call from writing the file in between.
NumCalls == 2
MaxStartEdges == 1
MaxLockedStartEdges == 2
MaxConcRequest == 1

Procs == 1..NumCalls

\* The requests of the concurrent calls.
ConcRequests ==
  {rq \in [add : SeqsUpTo(Nodes, MaxConcRequest),
           remove : SeqsUpTo(Nodes, MaxConcRequest)] :
     /\ Len(rq.add) + Len(rq.remove) >= 1
     /\ Len(rq.add) + Len(rq.remove) <= MaxConcRequest}

\* The repository with the depends_on edges E and matching blocks lists.
GraphOf(E) ==
  LET dep == [s \in Nodes |-> AscendingList({d \in Nodes : <<s, d>> \in E})]
  IN  Repo(Nodes, dep, Transpose(Nodes, dep))

\* The repositories the calls start from: up to max_edges edges, no cycle,
\* blocks the transpose of depends_on.
StartGraphs(max_edges) ==
  {g \in {GraphOf(E) : E \in {F \in SUBSET {e \in Nodes \X Nodes : e[1] # e[2]} :
                                Cardinality(F) <= max_edges}} :
     \A n \in Nodes : n \notin DependsOnPlus(g, n)}

\* A number for a call, to list each pair of calls once: the calls are
\* interchangeable.
RECURSIVE SeqCode(_)
SeqCode(s) == IF s = <<>> THEN 0 ELSE Head(s) + (NumNodes + 1) * SeqCode(Tail(s))

CallCode(c) == SeqCode(<<c.subject>> \o c.rq.add \o <<0>> \o c.rq.remove)

EmptyRecord == [depends_on |-> <<>>, blocks |-> <<>>]

\* The records a call writes.
LockSet(c) == {c.subject} \cup Range(c.add) \cup Range(c.remove)

\* The call has passed its guard and has writes left to make.
InProgress(c) == c.at \in {"read", "write"}

Returned(c) == c.at \in {"ok", "cycle", "not_found"}

\* Whether the lock discipline lets call p start now: none at all, one
\* mutex per issue id taken for every record the call writes, or one global
\* mutex; the locks are held until the call returns.
MayStart(p) ==
  \/ last.lock = "none"
  \/ /\ last.lock = "per_issue"
     /\ \A q \in Procs \ {p} :
          InProgress(calls[q]) => LockSet(calls[q]) \cap LockSet(calls[p]) = {}
  \/ /\ last.lock = "global"
     /\ \A q \in Procs \ {p} : ~InProgress(calls[q])

InitCalls(locks, max_edges) ==
  /\ \E g \in StartGraphs(max_edges) :
       /\ issues = g.issues
       /\ depends_on = g.depends_on
       /\ blocks = g.blocks
  /\ closed = {}
  /\ pc = "idle"
  /\ \E cs \in [Procs -> [subject : Nodes, rq : ConcRequests]] :
       /\ \A p \in Procs, q \in Procs : p < q => CallCode(cs[p]) <= CallCode(cs[q])
       /\ calls = [p \in Procs |->
                  [subject |-> cs[p].subject, add |-> cs[p].rq.add,
                   remove |-> cs[p].rq.remove, at |-> "guard", i |-> 0,
                   buf |-> EmptyRecord]]
  /\ \E lock \in locks :
       last = [op |-> "concurrent", lock |-> lock, pre |-> Current,
               overlap |-> FALSE, lost |-> FALSE]

\* pc is "done" once every call has returned.
AllReturnedAfter(cs) == IF \A p \in Procs : Returned(cs[p]) THEN "done" ELSE "idle"

\* Lines 1755-1780 of depend: the add ids are loaded, then the guard runs on
\* the repository as it is now.
CallGuard(p) ==
  /\ calls[p].at = "guard"
  /\ MayStart(p)
  /\ LET c == calls[p]
         at == IF AddRefMissing(Current, c.add) THEN "not_found"
               ELSE IF CycleCheckFails(Current, c.subject, c.add) THEN "cycle"
               ELSE "read"
         cs == [calls EXCEPT ![p].at = at, ![p].i = 1]
     IN  /\ calls' = cs
         /\ pc' = AllReturnedAfter(cs)
         /\ last' = [last EXCEPT !.overlap =
                       @ \/ (at = "read" /\ \E q \in Procs \ {p} : InProgress(calls[q]))]
  /\ UNCHANGED <<issues, depends_on, blocks, closed>>

\* update_issue_metadata, first half: the record of the next write is read.
CallRead(p) ==
  /\ calls[p].at = "read"
  /\ LET c == calls[p]
         w == DependWrites(c.subject, c.add, c.remove)[c.i]
         cs == IF IssueExists(Current, w.id)
               THEN [calls EXCEPT ![p].at = "write",
                                  ![p].buf = [depends_on |-> depends_on[w.id],
                                              blocks |-> blocks[w.id]]]
               ELSE [calls EXCEPT ![p].at = "not_found"]
     IN  /\ calls' = cs
         /\ pc' = AllReturnedAfter(cs)
  /\ UNCHANGED <<issues, depends_on, blocks, closed, last>>

\* update_issue_metadata, second half: the closure is applied to the record
\* that was read and the result replaces the file.
CallWrite(p) ==
  /\ calls[p].at = "write"
  /\ LET c == calls[p]
         ws == DependWrites(c.subject, c.add, c.remove)
         w == ws[c.i]
         read == [Current EXCEPT !.depends_on[w.id] = c.buf.depends_on,
                                 !.blocks[w.id] = c.buf.blocks]
         new == ApplyWrite(read, w, c.subject, c.add, c.remove)
         cs == [calls EXCEPT ![p].at = IF c.i = Len(ws) THEN "ok" ELSE "read",
                             ![p].i = c.i + 1,
                             ![p].buf = EmptyRecord]
     IN  /\ depends_on' = [depends_on EXCEPT ![w.id] = new.depends_on[w.id]]
         /\ blocks' = [blocks EXCEPT ![w.id] = new.blocks[w.id]]
         /\ calls' = cs
         /\ pc' = AllReturnedAfter(cs)
         /\ last' = [last EXCEPT !.lost =
                       @ \/ c.buf # [depends_on |-> depends_on[w.id],
                                     blocks |-> blocks[w.id]]]
  /\ UNCHANGED <<issues, closed>>

NextCalls ==
  \/ \E p \in Procs : CallGuard(p)
  \/ \E p \in Procs : CallRead(p)
  \/ \E p \in Procs : CallWrite(p)

\* The program as it is: no lock.
SpecConc == InitCalls({"none"}, MaxStartEdges) /\ [][NextCalls]_vars

\* The program under an external lock.
SpecLocked == InitCalls({"per_issue", "global"}, MaxLockedStartEdges) /\ [][NextCalls]_vars

GraphI2(g) ==
  \A s \in Nodes, d \in Nodes :
    d \in Range(g.depends_on[s]) <=> s \in Range(g.blocks[d])

AllReturned == pc = "done" /\ last.op = "concurrent"

AllOk == AllReturned /\ \A p \in Procs : calls[p].at = "ok"

CallsTypeOK ==
  /\ issues = Nodes
  /\ \A p \in Procs : calls[p].at \in {"guard", "read", "write", "ok", "cycle", "not_found"}
  /\ last.lock \in {"none", "per_issue", "global"}

\* C24: record updates are unlocked read-modify-writes.  Calls that run one
\* after the other keep I2; when two calls overlap, a record written by one
\* call between the other's read and write loses that update, both calls
\* return success and I2 can be broken in the final state.
C24_UnserializedUpdates ==
  AllOk
  => /\ ~last.overlap => (~last.lost /\ GraphI2(Current))
     /\ \A d \in Nodes :
          Range(blocks[d]) \subseteq
            Range(last.pre.blocks[d])
              \cup {calls[p].subject : p \in {q \in Procs : d \in Range(calls[q].add)}}

\* Two subjects add the same dependency; the later blocks write overwrites
\* the earlier one.
C24_Witness ==
  /\ AllOk /\ last.lost /\ GraphI2(last.pre) /\ ~GraphI2(Current)
  /\ calls[1].subject # calls[2].subject
  /\ \E d \in Nodes :
       /\ calls[1].add = <<d>> /\ calls[2].add = <<d>>
       /\ d \in Range(depends_on[calls[1].subject])
       /\ d \in Range(depends_on[calls[2].subject])
       /\ Cardinality(Range(blocks[d]) \cap {calls[1].subject, calls[2].subject}) = 1

\* C25: the guard and the writes it gates are not one step.  Calls that run
\* one after the other keep the graph acyclic; a call that passes its guard
\* while another call is between its guard and its last write can commit
\* an edge that closes a cycle, with both calls returning success.
C25_GuardNotAtomic ==
  (AllReturned /\ ~GraphAcyclic(Current)) => last.overlap

\* depend(A, add=[B]) and depend(B, add=[A]) on a graph without edges both
\* succeed and leave A and B depending on each other.
C25_Witness ==
  /\ AllOk /\ last.overlap
  /\ GraphAcyclic(last.pre) /\ ~GraphAcyclic(Current)
  /\ \A n \in Nodes : last.pre.depends_on[n] = <<>>
  /\ calls[1].add = <<calls[2].subject>>
  /\ calls[2].add = <<calls[1].subject>>
  /\ calls[2].subject \in Range(depends_on[calls[1].subject])
  /\ calls[1].subject \in Range(depends_on[calls[2].subject])

MetNoLater(a, b) ==
  \/ a = b
  \/ \E i \in 1..Len(a) :
       /\ i <= Len(b)
       /\ a[i] < b[i]
       /\ \A j \in 1..(i - 1) : a[j] = b[j]

\* The simple chains of k open issues.
ChainsOfLength(g, k) ==
  {c \in [1..k -> g.issues] :
     /\ \A i \in 1..k, j \in 1..k : i # j => c[i] # c[j]
     /\ \A i \in 1..(k - 1) : Contains(g.depends_on[c[i + 1]], c[i])}

\* C27: among the chains of maximal length the search returns the one met
\* first when starts and dependents are tried by ascending id; "2 has no
\* dependencies, 1 depends on 2, 3 depends on 1" gives exactly [2,1,3].
C27_FirstFoundWins ==
  CriticalPathReturned
  => /\ last.chain \in ChainsOfLength(Current, Len(last.chain))
     /\ \A c \in ChainsOfLength(Current, Len(last.chain)) : MetNoLater(last.chain, c)
     /\ IsGraph({1, 2, 3}, <<<<2>>, <<>>, <<1>>>>) => last.chain = <<2, 1, 3>>

C27_Witness ==
  /\ CriticalPathReturned
  /\ Len(last.chain) = 3
  /\ last.chain[1] # 1
  /\ Cardinality(ChainsOfLength(Current, 3)) >= 3

\* C28: a successful depend changes nothing but the subject's depends_on and
\* the blocks lists of the ids it adds or removes: the depends_on of every
\* other issue, the blocks of every issue outside add and remove, and the
\* subject's own blocks unless the subject is in remove, are as before.
C28_DependFrame ==
  (CliReturned /\ last.result = "ok")
  => /\ issues = last.pre.issues
     /\ \A n \in Ids \ {last.subject} : depends_on[n] = last.pre.depends_on[n]
     /\ \A n \in Ids \ (Range(last.add) \cup Range(last.remove)) :
          blocks[n] = last.pre.blocks[n]
     /\ last.subject \notin Range(last.remove)
          => blocks[last.subject] = last.pre.blocks[last.subject]

C28_Witness ==
  /\ CliReturned /\ last.result = "ok"
  /\ last.add # <<>> /\ last.remove # <<>>
  /\ depends_on[last.subject] # last.pre.depends_on[last.subject]
  /\ blocks[last.subject] # <<>>
  /\ \E d \in Range(last.add) : blocks[d] # last.pre.blocks[d]
  /\ \E d \in Range(last.remove) : blocks[d] # last.pre.blocks[d]

\* C29: a depend request that adds nothing never fails with a cycle error,
\* whatever cycles the graph contains; when its ids exist it succeeds and the
\* removed edges are gone, so an existing cycle can be broken.
C29_RemovalNeverBlocked ==
  (CliReturned /\ last.add = <<>>)
  => /\ last.result # "cycle"
     /\ RefsExist
          => /\ last.result = "ok"
             /\ Prereqs(Current, last.subject)
                  = Prereqs(last.pre, last.subject) \ Range(last.remove)

C29_Witness ==
  /\ CliReturned /\ last.add = <<>> /\ last.remove # <<>>
  /\ last.result = "ok"
  /\ last.subject \in DependsOnPlus(last.pre, last.subject)
  /\ Cardinality(DependsOnStar(last.pre, last.subject)) = NumIds
  /\ Acyclic(Current)

\* C30: in every working set, cyclic or not, an id in a layer other than the
\* last has each of its drawn prerequisites in a strictly earlier layer.
C30_StrictBeforeLastLayer ==
  DepsGraphReturned
  => \A i \in 1..(Len(last.layers) - 1) :
       \A n \in Range(last.layers[i]) :
         \A p \in Prereqs(Current, n) \cap Range(last.ids) :
           \E j \in 1..(i - 1) : p \in Range(last.layers[j])

C30_Witness ==
  /\ DepsGraphReturned
  /\ last.fallback # {}
  /\ Len(last.layers) = 3
  /\ \E n \in Range(last.layers[2]) : Prereqs(Current, n) \cap Range(last.layers[1]) # {}
  /\ \E n \in Range(last.layers[3]) : Prereqs(Current, n) \cap Range(last.layers[3]) # {}

====
